---- MODULE Spec2Model ----
(***************************************************************************)
(* A model of the LearnAI application state orchestrator (AppProvider in   *)
(* context/AppContext) together with the Socratic session state that App   *)
(* keeps.  Every handler of the context is one action; an asynchronous     *)
(* handler is split at its await into the step that issues the request and *)
(* the step that resumes with the response or with the failure.  The       *)
(* variables a resumed step reads from its closure (folders, the Socratic  *)
(* history) are the values captured when the handler was called.           *)
(***************************************************************************)
EXTENDS Integers, Sequences, FiniteSets, TLC

\* ------------------------------------------------------------------ bounds
MaxCalls == 2          \* generation requests (course, project, test) issued in a run
MaxFolders == 2        \* folders held at one time
MaxTime == 2           \* largest reading of the clock (Date.now())
MaxSocraticCalls == 3  \* Socratic messages sent in a run
MaxCourses == 2        \* courses in the persisted state a run starts from
MaxExploreCalls == 2   \* related-topics requests issued in a run
MaxFlashcardCalls == 2 \* handleGenerateLessonFlashcards calls with an active course

\* ------------------------------------------------------------ input domains
Topics == {"Photosynthesis"}
Levels == {"beginner"}
Names == {"Biology"}
NewNames == {"Physics"}
LessonIds == {"l1", "l2"}
StepIds == {"s1", "s2"}
Messages == {"Why?", "How?"}
Responses == {"Because."}
Texts == {"Light reactions"}
Notes == {"Chlorophyll absorbs light"}
FunFactLists == {<<"fact">>}
QuestionLists == {<<"question">>}
RelatedTopicNames == {"Calvin cycle"}
FlashcardLists == {<<"What absorbs light?">>}
\* A lesson id that no lesson of any course has.
UnknownLessonIds == {"l0"}
\* What a request of the generation client can throw: an Error carrying a
\* message, or a value that is no Error.
Failures == {[isError |-> TRUE, message |-> "quota exceeded"],
             [isError |-> FALSE, message |-> ""]}

\* ------------------------------------------------------------------- state
VARIABLES
    courses,              \* Course[]: the in-memory course list
    folders,              \* Folder[]: [id, name, courseIds]
    projects,             \* Project[]
    progressData,         \* Record<courseId, Progress>, keys in insertion order
    projectProgressData,  \* Record<projectId, ProjectProgress>
    activeCourse,         \* Course | null
    activeProject,        \* Project | null
    topic,                \* string
    error,                \* string | null
    funFacts,             \* string[]
    preloadedTest,        \* PreloadedTestState | null
    stCourses,            \* storage: the persisted courses
    stFolders,            \* storage: the persisted folder list
    stProjects,           \* storage: the persisted projects
    stProgress,           \* storage: the persisted progress records
    stProjectProgress,    \* storage: the persisted project progress records
    socraticState,        \* App: [isOpen, originalText, history, isLoading]
    calls,                \* generation requests, in the order they were issued
    socraticCalls,        \* Socratic dialogue requests, in the order they were issued
    now,                  \* the clock, Date.now()
    nextId,               \* the next id the generation client gives an entity
    generatingLessonFlashcardId,  \* string | null
    flashcardCalls,       \* flashcard generation requests, in the order issued
    exploreModalState,    \* [isOpen, isLoading, courseTitle, topics]
    exploreCalls          \* related-topics requests, in the order issued

memVars == <<courses, folders, projects, progressData, projectProgressData,
             activeCourse, activeProject, topic, error, funFacts, preloadedTest>>
stVars == <<stCourses, stFolders, stProjects, stProgress, stProjectProgress>>
restVars == <<generatingLessonFlashcardId, flashcardCalls, exploreModalState, exploreCalls>>
vars == <<memVars, stVars, socraticState, calls, socraticCalls, now, nextId, restVars>>

\* ------------------------------------------------------------------- values
\* null, for a course or a project and for an id
NoCourse == [id |-> 0]
NoProject == [id |-> 0]
NoId == NoCourse.id
NoTest == [topic |-> "", difficulty |-> "", questions |-> <<>>]
\* The error string: null, or a string held as the parts it was built from.
NullError == [isNull |-> TRUE, parts |-> <<>>]
ErrorString(parts) == [isNull |-> FALSE, parts |-> parts]
\* The length of the string the parts make up.
RECURSIVE StrLen(_)
StrLen(parts) ==
    IF parts = <<>> THEN 0 ELSE Len(Head(parts)) + StrLen(Tail(parts))

\* A lesson as the generation client returns it: no notes, no flashcards.
\* The modules of a course are flattened into the sequence of their lessons.
NoLesson == ""
NoNotes == ""
NoFlashcards == <<>>
Lesson(id) == [id |-> id, notes |-> NoNotes, flashcards |-> NoFlashcards]
Course(id, t, l) ==
    [id |-> id, title |-> t, knowledgeLevel |-> l,
     lessons |-> <<Lesson("l1"), Lesson("l2")>>]
Project(id, t) == [id |-> id, title |-> t]

Ids(seq) == {seq[i].id : i \in DOMAIN seq}
MapSeq(seq, F(_)) == [i \in DOMAIN seq |-> F(seq[i])]
\* Array.prototype.find / findIndex: the first element that matches, 0 for none
FindIndex(seq, Test(_)) ==
    IF \E i \in DOMAIN seq : Test(seq[i])
    THEN CHOOSE i \in DOMAIN seq : Test(seq[i]) /\ \A j \in 1..(i - 1) : ~Test(seq[j])
    ELSE 0
\* All duplicate-free sequences over a set, up to a length
RECURSIVE SeqsNoDup(_, _)
SeqsNoDup(S, n) ==
    IF n = 0 THEN {<<>>}
    ELSE LET shorter == SeqsNoDup(S, n - 1)
         IN  shorter \cup {q \in {Append(s, x) : s \in shorter, x \in S} :
                             \A i, j \in DOMAIN q : i # j => q[i] # q[j]}

\* ------------------------------------------- JavaScript objects and Maps
\* A Record<string, V> is the sequence of its entries [id, map] in insertion
\* order, which is the order for...in visits them in.
HasKey(rec, k) == \E i \in DOMAIN rec : rec[i].id = k
Keys(rec) == {rec[i].id : i \in DOMAIN rec}
EmptyMap == <<>>
Get(rec, k) ==
    IF HasKey(rec, k) THEN rec[CHOOSE i \in DOMAIN rec : rec[i].id = k].map
    ELSE EmptyMap
\* { ...prev, [k]: v }: an existing key keeps its place, a new one goes last
Put(rec, k, v) ==
    IF HasKey(rec, k)
    THEN [i \in DOMAIN rec |-> IF rec[i].id = k THEN [id |-> k, map |-> v] ELSE rec[i]]
    ELSE Append(rec, [id |-> k, map |-> v])
\* delete copy[k]
DeleteKey(rec, k) == SelectSeq(rec, LAMBDA e : e.id # k)
\* A Map<string, V> is a function on the keys it holds.
MapSet(m, k, v) == [x \in (DOMAIN m) \cup {k} |-> IF x = k THEN v ELSE m[x]]
MapDelete(m, k) == [x \in (DOMAIN m) \ {k} |-> m[x]]

\* ----------------------------------------------------------------- storage
\* storageService is not among the sources: its operations follow the
\* persistence adapter's contract (save, delete by id, read-modify-write
\* toggle of one progress record).
saveCourse(stored, course) == {c \in stored : c.id # course.id} \cup {course}
deleteCourse(stored, courseId) == {c \in stored : c.id # courseId}
\* set under the course's id
updateCourse(stored, course) == saveCourse(stored, course)
saveProject(stored, project) == {p \in stored : p.id # project.id} \cup {project}
deleteProgress(stored, courseId) == DeleteKey(stored, courseId)
deleteProject(stored, projectId) == {p \in stored : p.id # projectId}
deleteProjectProgress(stored, projectId) == DeleteKey(stored, projectId)
\* The toggled copy of one progress map: the entry is removed when present
\* and inserted with the given value when absent.
ToggleEntry(m, key, value) ==
    IF key \in DOMAIN m THEN MapDelete(m, key) ELSE MapSet(m, key, value)
toggleLessonProgress(stored, courseId, lessonId, time) ==
    LET m == ToggleEntry(Get(stored, courseId), lessonId, time)
    IN  [stored |-> Put(stored, courseId, m), newProgress |-> m]
toggleProjectStepProgress(stored, projectId, stepId) ==
    LET m == ToggleEntry(Get(stored, projectId), stepId, TRUE)
    IN  [stored |-> Put(stored, projectId, m), newProgress |-> m]

\* ------------------------------------------------------- generation client
\* geminiService is not among the sources: a request either returns its
\* typed result or throws; the entity it returns carries an id no entity
\* had before.
KnownIds == 1..(nextId - 1)
Call(kind, t, level, folderId, course) ==
    [kind |-> kind, pc |-> "awaiting",
     funFactsPc |-> IF kind = "test" THEN "none" ELSE "awaiting",
     topic |-> t, level |-> level, folderId |-> folderId,
     folders |-> IF kind = "course" THEN folders ELSE <<>>,
     course |-> course,
     nGenerating |-> IF kind = "test" THEN 0 ELSE 1, nSuccess |-> 0, nFailure |-> 0,
     result |-> NoId, failure |-> [isError |-> FALSE, message |-> ""]]
Awaiting(i, kind) ==
    /\ i \in DOMAIN calls
    /\ calls[i].kind = kind
    /\ calls[i].pc = "awaiting"
Succeeded(i, id) ==
    [calls EXCEPT ![i].pc = "resolved", ![i].nSuccess = @ + 1, ![i].result = id]
FailedUncounted(i, e) ==
    [calls EXCEPT ![i].pc = "rejected", ![i].failure = e]
Failed(i, e) ==
    [calls EXCEPT ![i].pc = "rejected", ![i].nFailure = @ + 1, ![i].failure = e]

\* ------------------------------------------------------------ course list
\* e instanceof Error ? e.message : 'An unknown error occurred.'
ErrorMessage(e) == IF e.isError THEN e.message ELSE "An unknown error occurred."
CourseErrorNoReason(e) ==
    ErrorString(<<"Failed to generate the course. ", ". Please try again.">>)
CourseError(e) ==
    ErrorString(<<"Failed to generate the course. ", ErrorMessage(e), ". Please try again.">>)
ProjectError(e) ==
    ErrorString(<<"Failed to generate the project. ", ErrorMessage(e), ". Please try again.">>)
TestErrorNotSet(e) == error
TestError(e) ==
    ErrorString(<<IF e.isError THEN e.message
                  ELSE "Could not generate the test for this course.">>)

\* folders.map(f => f.id === folderId ? {...f, courseIds: [...f.courseIds, id]} : f)
AppendToFolder(fs, folderId, courseId) ==
    [i \in DOMAIN fs |->
        IF fs[i].id = folderId
        THEN [fs[i] EXCEPT !.courseIds = Append(@, courseId)]
        ELSE fs[i]]
\* folders.map(f => ({...f, courseIds: f.courseIds.filter(id => id !== courseId)}))
StripCourseNowhere(fs, courseId) == fs
StripCourse(fs, courseId) ==
    [i \in DOMAIN fs |->
        [fs[i] EXCEPT !.courseIds = SelectSeq(@, LAMBDA id : id # courseId)]]
\* prev => [generatedCourse, ...prev]
Prepend(list, item) == <<item>> \o list

handleGenerateCourse(t, level, folderId) ==
    /\ Len(calls) < MaxCalls
    /\ topic' = t
    /\ error' = NullError
    /\ funFacts' = <<>>
    /\ calls' = Append(calls, Call("course", t, level, folderId, NoCourse))
    /\ UNCHANGED <<courses, folders, projects, progressData, projectProgressData,
                   activeCourse, activeProject, preloadedTest>>
    /\ UNCHANGED <<restVars, stVars, socraticState, socraticCalls, now, nextId>>

GenerateCourseResolved(i) ==
    /\ Awaiting(i, "course")
    /\ LET generatedCourse == Course(nextId, calls[i].topic, calls[i].level)
           updatedFolders == AppendToFolder(calls[i].folders, calls[i].folderId,
                                            generatedCourse.id)
       IN  /\ stCourses' = saveCourse(stCourses, generatedCourse)
           /\ IF calls[i].folderId # NoId
              THEN folders' = updatedFolders /\ stFolders' = updatedFolders
              ELSE UNCHANGED <<folders, stFolders>>
           /\ courses' = Prepend(courses, generatedCourse)
           /\ activeCourse' = generatedCourse
           /\ calls' = Succeeded(i, generatedCourse.id)
    /\ nextId' = nextId + 1
    /\ UNCHANGED <<projects, progressData, projectProgressData, activeProject,
                   topic, error, funFacts, preloadedTest>>
    /\ UNCHANGED <<stProjects, stProgress, stProjectProgress>>
    /\ UNCHANGED <<restVars, socraticState, socraticCalls, now>>

GenerateCourseRejected(i, e) ==
    /\ Awaiting(i, "course")
    /\ error' = CourseError(e)
    /\ calls' = Failed(i, e)
    /\ UNCHANGED <<courses, folders, projects, progressData, projectProgressData,
                   activeCourse, activeProject, topic, funFacts, preloadedTest>>
    /\ UNCHANGED <<restVars, stVars, socraticState, socraticCalls, now, nextId>>

\* geminiService.generateFunFacts(topic).then(setFunFacts).catch(log)
FunFactsResolved(i, facts) ==
    /\ i \in DOMAIN calls
    /\ calls[i].funFactsPc = "awaiting"
    /\ funFacts' = facts
    /\ calls' = [calls EXCEPT ![i].funFactsPc = "resolved"]
    /\ UNCHANGED <<courses, folders, projects, progressData, projectProgressData,
                   activeCourse, activeProject, topic, error, preloadedTest>>
    /\ UNCHANGED <<restVars, stVars, socraticState, socraticCalls, now, nextId>>

FunFactsRejectedSurfaced(i) ==
    /\ i \in DOMAIN calls
    /\ calls[i].funFactsPc = "awaiting"
    /\ calls' = [calls EXCEPT ![i].funFactsPc = "rejected"]
    /\ error' = ErrorString(<<"Failed to fetch fun facts">>)
    /\ UNCHANGED <<courses, folders, projects, progressData, projectProgressData,
                   activeCourse, activeProject, topic, funFacts, preloadedTest>>
    /\ UNCHANGED <<restVars, stVars, socraticState, socraticCalls, now, nextId>>
FunFactsRejected(i) ==
    /\ i \in DOMAIN calls
    /\ calls[i].funFactsPc = "awaiting"
    /\ calls' = [calls EXCEPT ![i].funFactsPc = "rejected"]
    /\ UNCHANGED <<restVars, memVars, stVars, socraticState, socraticCalls, now, nextId>>

handleSelectCourse(courseId) ==
    /\ LET k == FindIndex(courses, LAMBDA c : c.id = courseId)
       IN  IF k # 0 THEN activeCourse' = courses[k] ELSE UNCHANGED activeCourse
    /\ UNCHANGED <<courses, folders, projects, progressData, projectProgressData,
                   activeProject, topic, error, funFacts, preloadedTest>>
    /\ UNCHANGED <<restVars, stVars, socraticState, calls, socraticCalls, now, nextId>>

\* App: handleBackToCanvas, offered by the course detail view, which is
\* rendered only while a course is active.
handleBackToCanvas ==
    /\ activeCourse # NoCourse
    /\ activeCourse' = NoCourse
    /\ UNCHANGED <<courses, folders, projects, progressData, projectProgressData,
                   activeProject, topic, error, funFacts, preloadedTest>>
    /\ UNCHANGED <<restVars, stVars, socraticState, calls, socraticCalls, now, nextId>>

handleDeleteCourse(courseId) ==
    /\ courses' = SelectSeq(courses, LAMBDA c : c.id # courseId)
    /\ folders' = StripCourse(folders, courseId)
    /\ progressData' = DeleteKey(progressData, courseId)
    /\ stCourses' = deleteCourse(stCourses, courseId)
    /\ stProgress' = deleteProgress(stProgress, courseId)
    /\ UNCHANGED <<projects, projectProgressData, activeCourse, activeProject,
                   topic, error, funFacts, preloadedTest>>
    /\ UNCHANGED <<stFolders, stProjects, stProjectProgress>>
    /\ UNCHANGED <<restVars, socraticState, calls, socraticCalls, now, nextId>>

\* ------------------------------------------------------------------- notes
\* modules.map(m => ({...m, lessons: m.lessons.map(l => l.id === lessonId ? {...l, notes: note} : l)}))
WithNote(course, lessonId, note) ==
    [course EXCEPT !.lessons =
        MapSeq(@, LAMBDA l : IF l.id = lessonId THEN [l EXCEPT !.notes = note] ELSE l)]
\* prev => prev.map(c => c.id === updatedCourse.id ? updatedCourse : c)
ReplaceCourse(list, updatedCourse) ==
    MapSeq(list, LAMBDA c : IF c.id = updatedCourse.id THEN updatedCourse ELSE c)

handleSaveNote(courseId, lessonId, note) ==
    /\ LET k == FindIndex(courses, LAMBDA c : c.id = courseId)
           updatedCourse == WithNote(courses[k], lessonId, note)
       IN  IF k = 0
           THEN UNCHANGED <<courses, activeCourse, stCourses>>
           ELSE /\ stCourses' = updateCourse(stCourses, updatedCourse)
                /\ courses' = ReplaceCourse(courses, updatedCourse)
                /\ activeCourse' = IF activeCourse.id = courseId THEN updatedCourse
                                   ELSE activeCourse
    /\ UNCHANGED <<folders, projects, progressData, projectProgressData,
                   activeProject, topic, error, funFacts, preloadedTest>>
    /\ UNCHANGED <<stFolders, stProjects, stProgress, stProjectProgress>>
    /\ UNCHANGED <<restVars, socraticState, calls, socraticCalls, now, nextId>>

\* -------------------------------------------------------------- flashcards
\* activeCourse.modules.flatMap(m => m.lessons).find(l => l.id === lessonId)
HasLesson(course, lessonId) == \E k \in DOMAIN course.lessons : course.lessons[k].id = lessonId
\* { ...activeCourse, modules: ...lessons.map(l => l.id === lessonId ? {...l, flashcards} : l) }
WithFlashcards(course, lessonId, generatedCards) ==
    [course EXCEPT !.lessons =
        MapSeq(@, LAMBDA l : IF l.id = lessonId THEN [l EXCEPT !.flashcards = generatedCards]
                             ELSE l)]
FlashcardCall(lessonId, pc) == [lessonId |-> lessonId, course |-> activeCourse, pc |-> pc]

\* Up to the await the handler runs in one piece: with no active course it
\* returns; with a lesson the active course does not have it sets the
\* marker, throws, and clears the marker in the finally block.
handleGenerateLessonFlashcards(lessonId) ==
    /\ IF activeCourse = NoCourse
       THEN UNCHANGED <<generatingLessonFlashcardId, flashcardCalls>>
       ELSE /\ Len(flashcardCalls) < MaxFlashcardCalls
            /\ IF HasLesson(activeCourse, lessonId)
               THEN /\ generatingLessonFlashcardId' = lessonId
                    /\ flashcardCalls' =
                           Append(flashcardCalls, FlashcardCall(lessonId, "awaiting"))
               ELSE /\ generatingLessonFlashcardId' = NoLesson
                    /\ flashcardCalls' =
                           Append(flashcardCalls, FlashcardCall(lessonId, "notFound"))
    /\ UNCHANGED <<exploreModalState, exploreCalls>>
    /\ UNCHANGED <<memVars, stVars, socraticState, calls, socraticCalls, now, nextId>>

FlashcardsResolved(i, generatedCards) ==
    /\ i \in DOMAIN flashcardCalls
    /\ flashcardCalls[i].pc = "awaiting"
    /\ LET updatedCourse == WithFlashcards(flashcardCalls[i].course,
                                           flashcardCalls[i].lessonId, generatedCards)
       IN  /\ stCourses' = updateCourse(stCourses, updatedCourse)
           /\ activeCourse' = updatedCourse
           /\ courses' = ReplaceCourse(courses, updatedCourse)
    /\ generatingLessonFlashcardId' = NoLesson
    /\ flashcardCalls' = [flashcardCalls EXCEPT ![i].pc = "resolved"]
    /\ UNCHANGED <<folders, projects, progressData, projectProgressData,
                   activeProject, topic, error, funFacts, preloadedTest>>
    /\ UNCHANGED <<stFolders, stProjects, stProgress, stProjectProgress>>
    /\ UNCHANGED <<exploreModalState, exploreCalls>>
    /\ UNCHANGED <<socraticState, calls, socraticCalls, now, nextId>>

FlashcardsRejectedMarked(i) ==
    /\ i \in DOMAIN flashcardCalls
    /\ flashcardCalls[i].pc = "awaiting"
    /\ flashcardCalls' = [flashcardCalls EXCEPT ![i].pc = "rejected"]
    /\ UNCHANGED <<generatingLessonFlashcardId, exploreModalState, exploreCalls>>
    /\ UNCHANGED <<memVars, stVars, socraticState, calls, socraticCalls, now, nextId>>
FlashcardsRejected(i) ==
    /\ i \in DOMAIN flashcardCalls
    /\ flashcardCalls[i].pc = "awaiting"
    /\ generatingLessonFlashcardId' = NoLesson
    /\ flashcardCalls' = [flashcardCalls EXCEPT ![i].pc = "rejected"]
    /\ UNCHANGED <<exploreModalState, exploreCalls>>
    /\ UNCHANGED <<memVars, stVars, socraticState, calls, socraticCalls, now, nextId>>

\* ---------------------------------------------------------------- progress
\* prev => ({ ...prev, [courseId]: newProgress })
MergeProgressDropped(prev, id, newProgress) == prev
MergeProgress(prev, id, newProgress) == Put(prev, id, newProgress)

\* What handleToggleLessonComplete makes of the progress in memory and in
\* storage, at a clock reading.
LessonToggled(mem, stored, courseId, lessonId, time) ==
    LET r == toggleLessonProgress(stored, courseId, lessonId, time)
    IN  [mem |-> MergeProgress(mem, courseId, r.newProgress), stored |-> r.stored]
StepToggled(mem, stored, projectId, stepId) ==
    LET r == toggleProjectStepProgress(stored, projectId, stepId)
    IN  [mem |-> MergeProgress(mem, projectId, r.newProgress), stored |-> r.stored]

handleToggleLessonComplete(courseId, lessonId) ==
    /\ LET r == LessonToggled(progressData, stProgress, courseId, lessonId, now)
       IN  progressData' = r.mem /\ stProgress' = r.stored
    /\ UNCHANGED <<courses, folders, projects, projectProgressData, activeCourse,
                   activeProject, topic, error, funFacts, preloadedTest>>
    /\ UNCHANGED <<stCourses, stFolders, stProjects, stProjectProgress>>
    /\ UNCHANGED <<restVars, socraticState, calls, socraticCalls, now, nextId>>

handleToggleProjectStepComplete(projectId, stepId) ==
    /\ LET r == StepToggled(projectProgressData, stProjectProgress, projectId, stepId)
       IN  projectProgressData' = r.mem /\ stProjectProgress' = r.stored
    /\ UNCHANGED <<courses, folders, projects, progressData, activeCourse,
                   activeProject, topic, error, funFacts, preloadedTest>>
    /\ UNCHANGED <<stCourses, stFolders, stProjects, stProgress>>
    /\ UNCHANGED <<restVars, socraticState, calls, socraticCalls, now, nextId>>

\* timestamp > lastTimestamp
NewerOrSame(timestamp, lastTimestamp) == timestamp >= lastTimestamp
Newer(timestamp, lastTimestamp) == timestamp > lastTimestamp
\* for (const timestamp of progressMap.values()): the values of one map,
\* folded into [ts, id] = (lastTimestamp, lastCourseId).  The entries left
\* to visit are taken in a fixed order; the comparison keeps the first
\* largest value, so the order within one map does not show in the id.
RECURSIVE ScanMap(_, _, _, _)
ScanMap(m, keys, courseId, last) ==
    IF keys = {} THEN last
    ELSE LET k == CHOOSE x \in keys : TRUE
         IN  ScanMap(m, keys \ {k}, courseId,
                     IF Newer(m[k], last.ts) THEN [ts |-> m[k], id |-> courseId]
                     ELSE last)
\* for (const courseId in progressData)
RECURSIVE ScanCourses(_, _, _)
ScanCourses(pd, i, last) ==
    IF i > Len(pd) THEN last
    ELSE ScanCourses(pd, i + 1, ScanMap(pd[i].map, DOMAIN pd[i].map, pd[i].id, last))
LastActive(pd) ==
    IF Len(pd) = 0 THEN NoId
    ELSE ScanCourses(pd, 1, [ts |-> 0, id |-> NoId]).id
lastActiveCourseId == LastActive(progressData)

\* ----------------------------------------------------------------- folders
Folder(id, name) == [id |-> id, name |-> name, courseIds |-> <<>>]

handleCreateFolder(name) ==
    /\ Len(folders) < MaxFolders
    /\ LET updatedFolders == Append(folders, Folder(now, name))
       IN  folders' = updatedFolders /\ stFolders' = updatedFolders
    /\ UNCHANGED <<courses, projects, progressData, projectProgressData, activeCourse,
                   activeProject, topic, error, funFacts, preloadedTest>>
    /\ UNCHANGED <<stCourses, stProjects, stProgress, stProjectProgress>>
    /\ UNCHANGED <<restVars, socraticState, calls, socraticCalls, now, nextId>>

handleDeleteFolder(folderId) ==
    /\ LET updatedFolders == SelectSeq(folders, LAMBDA f : f.id # folderId)
       IN  folders' = updatedFolders /\ stFolders' = updatedFolders
    /\ UNCHANGED <<courses, projects, progressData, projectProgressData, activeCourse,
                   activeProject, topic, error, funFacts, preloadedTest>>
    /\ UNCHANGED <<stCourses, stProjects, stProgress, stProjectProgress>>
    /\ UNCHANGED <<restVars, socraticState, calls, socraticCalls, now, nextId>>

handleUpdateFolderName(folderId, newName) ==
    /\ LET updatedFolders ==
               MapSeq(folders, LAMBDA f : IF f.id = folderId
                                          THEN [f EXCEPT !.name = newName] ELSE f)
       IN  folders' = updatedFolders /\ stFolders' = updatedFolders
    /\ UNCHANGED <<courses, projects, progressData, projectProgressData, activeCourse,
                   activeProject, topic, error, funFacts, preloadedTest>>
    /\ UNCHANGED <<stCourses, stProjects, stProgress, stProjectProgress>>
    /\ UNCHANGED <<restVars, socraticState, calls, socraticCalls, now, nextId>>

\* The folder list a move leaves: the id stripped from every folder, then
\* pushed onto the first folder whose id is the target, if there is one.
MovedFolders(fs, courseId, targetFolderId) ==
    LET stripped == StripCourse(fs, courseId)
        folderIndex == FindIndex(stripped, LAMBDA f : f.id = targetFolderId)
    IN  IF targetFolderId # NoId /\ folderIndex # 0
        THEN [stripped EXCEPT ![folderIndex].courseIds = Append(@, courseId)]
        ELSE stripped

handleMoveCourseToFolder(courseId, targetFolderId) ==
    /\ LET updatedFolders == MovedFolders(folders, courseId, targetFolderId)
       IN  folders' = updatedFolders /\ stFolders' = updatedFolders
    /\ UNCHANGED <<courses, projects, progressData, projectProgressData, activeCourse,
                   activeProject, topic, error, funFacts, preloadedTest>>
    /\ UNCHANGED <<stCourses, stProjects, stProgress, stProjectProgress>>
    /\ UNCHANGED <<restVars, socraticState, calls, socraticCalls, now, nextId>>

\* ---------------------------------------------------------------- projects
handleCreateProject(projectTopic) ==
    /\ Len(calls) < MaxCalls
    /\ topic' = projectTopic
    /\ error' = NullError
    /\ funFacts' = <<>>
    /\ calls' = Append(calls, Call("project", projectTopic, "", NoId, NoCourse))
    /\ UNCHANGED <<courses, folders, projects, progressData, projectProgressData,
                   activeCourse, activeProject, preloadedTest>>
    /\ UNCHANGED <<restVars, stVars, socraticState, socraticCalls, now, nextId>>

CreateProjectResolved(i) ==
    /\ Awaiting(i, "project")
    /\ LET generatedProject == Project(nextId, calls[i].topic)
       IN  /\ stProjects' = saveProject(stProjects, generatedProject)
           /\ projects' = Prepend(projects, generatedProject)
           /\ activeProject' = generatedProject
           /\ calls' = Succeeded(i, generatedProject.id)
    /\ nextId' = nextId + 1
    /\ UNCHANGED <<courses, folders, progressData, projectProgressData, activeCourse,
                   topic, error, funFacts, preloadedTest>>
    /\ UNCHANGED <<stCourses, stFolders, stProgress, stProjectProgress>>
    /\ UNCHANGED <<restVars, socraticState, socraticCalls, now>>

CreateProjectRejected(i, e) ==
    /\ Awaiting(i, "project")
    /\ error' = ProjectError(e)
    /\ calls' = Failed(i, e)
    /\ UNCHANGED <<courses, folders, projects, progressData, projectProgressData,
                   activeCourse, activeProject, topic, funFacts, preloadedTest>>
    /\ UNCHANGED <<restVars, stVars, socraticState, socraticCalls, now, nextId>>

handleSelectProject(projectId) ==
    /\ LET k == FindIndex(projects, LAMBDA q : q.id = projectId)
       IN  IF k # 0 THEN activeProject' = projects[k] ELSE UNCHANGED activeProject
    /\ UNCHANGED <<courses, folders, projects, progressData, projectProgressData,
                   activeCourse, topic, error, funFacts, preloadedTest>>
    /\ UNCHANGED <<restVars, stVars, socraticState, calls, socraticCalls, now, nextId>>

\* App: onBackToProjects, offered by the project detail view, which is
\* rendered only while a project is active.
onBackToProjects ==
    /\ activeProject # NoProject
    /\ activeProject' = NoProject
    /\ UNCHANGED <<courses, folders, projects, progressData, projectProgressData,
                   activeCourse, topic, error, funFacts, preloadedTest>>
    /\ UNCHANGED <<restVars, stVars, socraticState, calls, socraticCalls, now, nextId>>

\* projects.filter(p => p.id !== projectId)
RemainingProjectsNone(list, projectId) == <<>>
RemainingProjects(list, projectId) == SelectSeq(list, LAMBDA q : q.id # projectId)

handleDeleteProject(projectId) ==
    /\ projects' = RemainingProjects(projects, projectId)
    /\ stProjects' = deleteProject(stProjects, projectId)
    /\ stProjectProgress' = deleteProjectProgress(stProjectProgress, projectId)
    /\ projectProgressData' = DeleteKey(projectProgressData, projectId)
    /\ UNCHANGED <<courses, folders, progressData, activeCourse, activeProject,
                   topic, error, funFacts, preloadedTest>>
    /\ UNCHANGED <<stCourses, stFolders, stProgress>>
    /\ UNCHANGED <<restVars, socraticState, calls, socraticCalls, now, nextId>>

\* ------------------------------------------------------- test from a course
\* App passes the active course: onTestConcepts is offered by the course
\* detail view, which is rendered only while a course is active.
handleTestCourseConcepts(course) ==
    /\ Len(calls) < MaxCalls
    /\ course # NoCourse
    /\ calls' = Append(calls, Call("test", "", "", NoId, course))
    /\ UNCHANGED <<restVars, memVars, stVars, socraticState, socraticCalls, now, nextId>>

TestCourseConceptsResolved(i, questions) ==
    /\ Awaiting(i, "test")
    /\ preloadedTest' = [questions |-> questions, topic |-> calls[i].course.title,
                         difficulty |-> calls[i].course.knowledgeLevel]
    /\ calls' = Succeeded(i, NoId)
    /\ UNCHANGED <<courses, folders, projects, progressData, projectProgressData,
                   activeCourse, activeProject, topic, error, funFacts>>
    /\ UNCHANGED <<restVars, stVars, socraticState, socraticCalls, now, nextId>>

TestCourseConceptsRejected(i, e) ==
    /\ Awaiting(i, "test")
    /\ error' = TestError(e)
    /\ calls' = Failed(i, e)
    /\ UNCHANGED <<courses, folders, projects, progressData, projectProgressData,
                   activeCourse, activeProject, topic, funFacts, preloadedTest>>
    /\ UNCHANGED <<restVars, stVars, socraticState, socraticCalls, now, nextId>>

\* ------------------------------------------------------------------- clock
Tick ==
    /\ now < MaxTime
    /\ now' = now + 1
    /\ UNCHANGED <<restVars, memVars, stVars, socraticState, calls, socraticCalls, nextId>>

\* -------------------------------------------------------- Socratic session
Closed == [isOpen |-> FALSE, originalText |-> "", history |-> <<>>, isLoading |-> FALSE]
Turn(role, content) == [role |-> role, content |-> content]
Fallback == "I'm having trouble thinking. Please try again."
\* [...socraticState.history, { role: 'user', content: message }]
WithUserTurn(history, message) == Append(history, Turn("user", message))
\* [...newHistory, { role: 'model', content }]
WithModelTurnOnly(newHistory, content) == <<Turn("model", content)>>
WithModelTurn(newHistory, content) == Append(newHistory, Turn("model", content))

\* App: onStartSocraticDialogue
onStartSocraticDialogue(text) ==
    /\ socraticState' = [isOpen |-> TRUE, originalText |-> text, history |-> <<>>,
                         isLoading |-> FALSE]
    /\ UNCHANGED <<restVars, memVars, stVars, calls, socraticCalls, now, nextId>>

\* App renders the modal, and with it onClose and onSendMessage, only while
\* socraticState.isOpen; the state it passes is the one of the last render.
handleCloseSocraticModal ==
    /\ socraticState.isOpen
    /\ socraticState' = Closed
    /\ UNCHANGED <<restVars, memVars, stVars, calls, socraticCalls, now, nextId>>

handleSendSocraticMessage(message) ==
    /\ socraticState.isOpen
    /\ Len(socraticCalls) < MaxSocraticCalls
    /\ LET newHistory == WithUserTurn(socraticState.history, message)
       IN  /\ socraticState' = [socraticState EXCEPT !.history = newHistory,
                                                     !.isLoading = TRUE]
           /\ socraticCalls' = Append(socraticCalls,
                  [message |-> message, originalText |-> socraticState.originalText,
                   history |-> socraticState.history, newHistory |-> newHistory,
                   pc |-> "awaiting", response |-> ""])
    /\ UNCHANGED <<restVars, memVars, stVars, calls, now, nextId>>

SocraticResolved(i, aiResponse) ==
    /\ i \in DOMAIN socraticCalls
    /\ socraticCalls[i].pc = "awaiting"
    /\ socraticState' = [socraticState EXCEPT
                            !.history = WithModelTurn(socraticCalls[i].newHistory, aiResponse),
                            !.isLoading = FALSE]
    /\ socraticCalls' = [socraticCalls EXCEPT ![i].pc = "resolved",
                                              ![i].response = aiResponse]
    /\ UNCHANGED <<restVars, memVars, stVars, calls, now, nextId>>

SocraticRejected(i) ==
    /\ i \in DOMAIN socraticCalls
    /\ socraticCalls[i].pc = "awaiting"
    /\ socraticState' = [socraticState EXCEPT
                            !.history = WithModelTurn(socraticCalls[i].newHistory, Fallback),
                            !.isLoading = FALSE]
    /\ socraticCalls' = [socraticCalls EXCEPT ![i].pc = "rejected"]
    /\ UNCHANGED <<restVars, memVars, stVars, calls, now, nextId>>

\* ----------------------------------------------------------------- explore
ExploreClosed == [isOpen |-> FALSE, isLoading |-> FALSE, courseTitle |-> "", topics |-> <<>>]
\* What generateRelatedTopics(course) can return: a list of topics related
\* to that course.
RelatedTopicLists(course) ==
    {<<[topic |-> n, relatedTo |-> course.title]>> : n \in RelatedTopicNames}

\* App passes the active course: onExploreMore is offered by the course
\* detail view, which is rendered only while a course is active.
handleExploreTopics(course) ==
    /\ Len(exploreCalls) < MaxExploreCalls
    /\ course # NoCourse
    /\ exploreModalState' = [isOpen |-> TRUE, isLoading |-> TRUE,
                             courseTitle |-> course.title, topics |-> <<>>]
    /\ exploreCalls' = Append(exploreCalls,
                              [course |-> course, pc |-> "awaiting", topics |-> <<>>])
    /\ UNCHANGED <<generatingLessonFlashcardId, flashcardCalls>>
    /\ UNCHANGED <<memVars, stVars, socraticState, calls, socraticCalls, now, nextId>>

\* prev => ({ ...prev, topics, isLoading: false })
ExploreResolved(i, topics) ==
    /\ i \in DOMAIN exploreCalls
    /\ exploreCalls[i].pc = "awaiting"
    /\ exploreModalState' = [exploreModalState EXCEPT !.topics = topics,
                                                      !.isLoading = FALSE]
    /\ exploreCalls' = [exploreCalls EXCEPT ![i].pc = "resolved", ![i].topics = topics]
    /\ UNCHANGED <<generatingLessonFlashcardId, flashcardCalls>>
    /\ UNCHANGED <<memVars, stVars, socraticState, calls, socraticCalls, now, nextId>>

\* prev => ({ ...prev, isLoading: false })
NotLoading(prev) == [prev EXCEPT !.isLoading = FALSE]
ExploreRejected(i) ==
    /\ i \in DOMAIN exploreCalls
    /\ exploreCalls[i].pc = "awaiting"
    /\ exploreModalState' = NotLoading(exploreModalState)
    /\ exploreCalls' = [exploreCalls EXCEPT ![i].pc = "rejected"]
    /\ UNCHANGED <<generatingLessonFlashcardId, flashcardCalls>>
    /\ UNCHANGED <<memVars, stVars, socraticState, calls, socraticCalls, now, nextId>>

\* App: generateCourseFromRecommendation, offered by the explore modal for
\* a topic it shows: closeExploreModal(), then handleGenerateCourse with a
\* null folder id.
generateCourseFromRecommendation(t, level) ==
    /\ Len(calls) < MaxCalls
    /\ exploreModalState.isOpen
    /\ \E k \in DOMAIN exploreModalState.topics : exploreModalState.topics[k].topic = t
    /\ exploreModalState' = ExploreClosed
    /\ topic' = t
    /\ error' = NullError
    /\ funFacts' = <<>>
    /\ calls' = Append(calls, Call("course", t, level, NoId, NoCourse))
    /\ UNCHANGED <<courses, folders, projects, progressData, projectProgressData,
                   activeCourse, activeProject, preloadedTest>>
    /\ UNCHANGED <<generatingLessonFlashcardId, flashcardCalls, exploreCalls>>
    /\ UNCHANGED <<stVars, socraticState, socraticCalls, now, nextId>>

closeExploreModal ==
    /\ exploreModalState' = ExploreClosed
    /\ UNCHANGED <<generatingLessonFlashcardId, flashcardCalls, exploreCalls>>
    /\ UNCHANGED <<memVars, stVars, socraticState, calls, socraticCalls, now, nextId>>

\* ---------------------------------------------------------- specifications
\* The state after the provider has mounted on empty storage.
Init ==
    /\ courses = <<>> /\ folders = <<>> /\ projects = <<>>
    /\ progressData = <<>> /\ projectProgressData = <<>>
    /\ activeCourse = NoCourse /\ activeProject = NoProject
    /\ topic = "" /\ error = NullError /\ funFacts = <<>> /\ preloadedTest = NoTest
    /\ stCourses = {} /\ stFolders = <<>> /\ stProjects = {}
    /\ stProgress = <<>> /\ stProjectProgress = <<>>
    /\ socraticState = Closed
    /\ calls = <<>> /\ socraticCalls = <<>>
    /\ now = 1 /\ nextId = 1
    /\ generatingLessonFlashcardId = NoLesson /\ flashcardCalls = <<>>
    /\ exploreModalState = ExploreClosed /\ exploreCalls = <<>>

FolderIds == 1..MaxTime
CourseIds == 1..MaxCourses

CourseGenerationNext ==
    \/ \E t \in Topics, l \in Levels, f \in {NoId} \cup Ids(folders) :
          handleGenerateCourse(t, l, f)
    \/ \E i \in DOMAIN calls : GenerateCourseResolved(i)
    \/ \E i \in DOMAIN calls, e \in Failures : GenerateCourseRejected(i, e)

GenerationNext ==
    \/ CourseGenerationNext
    \/ \E i \in DOMAIN calls, facts \in FunFactLists : FunFactsResolved(i, facts)
    \/ \E i \in DOMAIN calls : FunFactsRejected(i)
    \/ \E t \in Topics : handleCreateProject(t)
    \/ \E i \in DOMAIN calls : CreateProjectResolved(i)
    \/ \E i \in DOMAIN calls, e \in Failures : CreateProjectRejected(i, e)
    \/ handleTestCourseConcepts(activeCourse)
    \/ \E i \in DOMAIN calls, q \in QuestionLists : TestCourseConceptsResolved(i, q)
    \/ \E i \in DOMAIN calls, e \in Failures : TestCourseConceptsRejected(i, e)

CourseNext ==
    \/ \E c \in KnownIds : handleSelectCourse(c)
    \/ \E c \in KnownIds : handleDeleteCourse(c)

FolderNext ==
    \/ \E n \in Names : handleCreateFolder(n)
    \/ \E f \in FolderIds : handleDeleteFolder(f)
    \/ \E c \in KnownIds, f \in {NoId} \cup FolderIds : handleMoveCourseToFolder(c, f)
    \/ Tick

RenameNext == \E f \in FolderIds, n \in NewNames : handleUpdateFolderName(f, n)

ProgressNext ==
    \/ \E c \in Ids(courses), l \in LessonIds : handleToggleLessonComplete(c, l)
    \/ \E p \in Ids(projects), s \in StepIds : handleToggleProjectStepComplete(p, s)
    \/ \E c \in Ids(courses) : handleDeleteCourse(c)
    \/ Tick

NoteNext == \E c \in KnownIds, l \in LessonIds, n \in Notes : handleSaveNote(c, l, n)

\* Operations that look an entity up by an id, given any id that was ever
\* handed out, whether or not an entity of the kind still has it.
LookupNext ==
    \/ \E c \in KnownIds : handleSelectCourse(c)
    \/ \E q \in KnownIds : handleSelectProject(q)
    \/ \E c \in KnownIds, n \in Notes : handleSaveNote(c, "l1", n)
    \/ \E f \in FolderIds, n \in NewNames : handleUpdateFolderName(f, n)
    \/ \E f \in FolderIds : handleDeleteFolder(f)
    \/ \E c \in KnownIds, f \in {NoId} \cup FolderIds : handleMoveCourseToFolder(c, f)
    \/ \E c \in KnownIds : handleDeleteCourse(c)

FlashcardNext ==
    \/ \E l \in LessonIds \cup UnknownLessonIds : handleGenerateLessonFlashcards(l)
    \/ \E i \in DOMAIN flashcardCalls, cards \in FlashcardLists : FlashcardsResolved(i, cards)
    \/ \E i \in DOMAIN flashcardCalls : FlashcardsRejected(i)

ExploreNext ==
    \/ handleExploreTopics(activeCourse)
    \/ \E i \in DOMAIN exploreCalls :
          \E ts \in RelatedTopicLists(exploreCalls[i].course) : ExploreResolved(i, ts)
    \/ \E i \in DOMAIN exploreCalls : ExploreRejected(i)
    \/ closeExploreModal

ProjectNext ==
    \/ \E t \in Topics : handleCreateProject(t)
    \/ \E i \in DOMAIN calls : CreateProjectResolved(i)
    \/ \E i \in DOMAIN calls, e \in Failures : CreateProjectRejected(i, e)
    \/ \E q \in KnownIds : handleSelectProject(q)
    \/ \E q \in KnownIds : handleDeleteProject(q)
    \/ \E q \in Ids(projects), st \in StepIds : handleToggleProjectStepComplete(q, st)

SocraticNext ==
    \/ \E text \in Texts : onStartSocraticDialogue(text)
    \/ handleCloseSocraticModal
    \/ \E m \in Messages : handleSendSocraticMessage(m)
    \/ \E i \in DOMAIN socraticCalls, r \in Responses : SocraticResolved(i, r)
    \/ \E i \in DOMAIN socraticCalls : SocraticRejected(i)

\* The whole program.
Next ==
    GenerationNext \/ CourseNext \/ FolderNext \/ RenameNext \/ ProgressNext
        \/ SocraticNext \/ ProjectNext \/ NoteNext \/ ExploreNext \/ FlashcardNext
        \/ handleBackToCanvas \/ onBackToProjects
        \/ \E t \in RelatedTopicNames, l \in Levels : generateCourseFromRecommendation(t, l)
Spec == Init /\ [][Next]_vars

\* The parts of the program, each with the operations that read or write
\* the state its claims are about.
\* Generation requests of all three kinds, with course selection and deletion.
GenerationSpec == Init /\ [][GenerationNext \/ CourseNext]_vars
\* The same under the assumption that the generation client answers every
\* request it was sent: the step that takes the answer of request i, as a
\* result or as a failure, is not postponed forever.
Answers(i) ==
    \/ GenerateCourseResolved(i)
    \/ \E e \in Failures : GenerateCourseRejected(i, e)
    \/ CreateProjectResolved(i)
    \/ \E e \in Failures : CreateProjectRejected(i, e)
    \/ \E q \in QuestionLists : TestCourseConceptsResolved(i, q)
    \/ \E e \in Failures : TestCourseConceptsRejected(i, e)
GenerationLiveSpec == GenerationSpec /\ \A i \in 1..MaxCalls : WF_vars(Answers(i))
\* Folder membership: course generation into folders, deletion, folder operations.
FolderSpec ==
    Init /\ [][CourseGenerationNext \/ (\E c \in KnownIds : handleDeleteCourse(c))
                   \/ FolderNext]_vars
\* Projects: generation, selection, deletion and the completion of steps.
ProjectSpec == Init /\ [][ProjectNext]_vars
\* The Socratic session: no other operation reads or writes it.
SocraticSpec == Init /\ [][SocraticNext]_vars

\* The provider mounted on a storage that holds courses 1..MaxCourses and a
\* project from earlier sessions, and no progress yet.
StoredTitle(i) ==
    IF i = 1 THEN "Photosynthesis" ELSE IF i = MaxCourses THEN "Respiration"
    ELSE "Fermentation"
StoredCourses == [i \in CourseIds |-> Course(i, StoredTitle(i), "beginner")]
StoredProject == Project(MaxCourses + 1, "Photosynthesis")
InitStored ==
    /\ courses = StoredCourses /\ stCourses = {StoredCourses[i] : i \in CourseIds}
    /\ projects = <<StoredProject>> /\ stProjects = {StoredProject}
    /\ activeCourse = NoCourse /\ activeProject = NoProject
    /\ topic = "" /\ error = NullError /\ funFacts = <<>> /\ preloadedTest = NoTest
    /\ projectProgressData = <<>> /\ stProjectProgress = <<>>
    /\ socraticState = Closed
    /\ calls = <<>> /\ socraticCalls = <<>>
    /\ nextId = MaxCourses + 2
    /\ generatingLessonFlashcardId = NoLesson /\ flashcardCalls = <<>>
    /\ exploreModalState = ExploreClosed /\ exploreCalls = <<>>

InitProgress ==
    /\ InitStored
    /\ folders = <<>> /\ stFolders = <<>>
    /\ progressData = <<>> /\ stProgress = <<>>
    /\ now = 1
ProgressSpec == InitProgress /\ [][ProgressNext]_vars

\* The same, on a storage whose two folders and progress records name only
\* stored courses; the only operation is the deletion of a course, by any id.
InitDelete ==
    /\ InitStored
    /\ now = 1
    /\ \E a, b \in SeqsNoDup(CourseIds, MaxCourses) :
          folders = <<[id |-> 1, name |-> "Biology", courseIds |-> a],
                      [id |-> 2, name |-> "Physics", courseIds |-> b]>>
    /\ stFolders = folders
    /\ \E ks \in SeqsNoDup(CourseIds, MaxCourses) :
          progressData = [i \in 1..Len(ks) |-> [id |-> ks[i], map |-> [l \in {"l1"} |-> 1]]]
    /\ stProgress = progressData
DeleteSpec == InitDelete /\ [][\E c \in KnownIds : handleDeleteCourse(c)]_vars

\* The same storage with one folder that holds every stored course; the
\* operations are those that take an id.
InitLookup ==
    /\ InitStored
    /\ now = 1
    /\ folders = <<[id |-> 1, name |-> "Biology", courseIds |-> [i \in CourseIds |-> i]]>>
    /\ stFolders = folders
    /\ progressData = <<>> /\ stProgress = <<>>
LookupSpec == InitLookup /\ [][LookupNext]_vars

\* Tests generated from the active course, on the same storage.
TestNext ==
    \/ \E c \in Ids(courses) : handleSelectCourse(c)
    \/ handleTestCourseConcepts(activeCourse)
    \/ \E i \in DOMAIN calls, q \in QuestionLists : TestCourseConceptsResolved(i, q)
    \/ \E i \in DOMAIN calls, e \in Failures : TestCourseConceptsRejected(i, e)
TestSpec == InitLookup /\ [][TestNext]_vars

\* Flashcard generation for the lessons of the active course, on the same
\* storage, with the selection of courses.
FlashcardSpec ==
    InitLookup /\ [][FlashcardNext \/ (\E c \in Ids(courses) : handleSelectCourse(c))]_vars

\* The course detail view and the dashboard: flashcards and notes of the
\* active course, selection, leaving the course, deletion.
StudyNext ==
    \/ FlashcardNext
    \/ \E c \in Ids(courses), l \in LessonIds, n \in Notes : handleSaveNote(c, l, n)
    \/ \E c \in Ids(courses) : handleSelectCourse(c)
    \/ \E c \in Ids(courses) : handleDeleteCourse(c)
    \/ handleBackToCanvas
StudySpec == InitLookup /\ [][StudyNext]_vars

\* The active selections: every operation that sets or clears the active
\* course or the active project, or removes a course or a project.
SelectionNext ==
    \/ FlashcardNext
    \/ \E c \in Ids(courses) : handleSelectCourse(c)
    \/ \E c \in Ids(courses) : handleDeleteCourse(c)
    \/ handleBackToCanvas
    \/ \E q \in Ids(projects) : handleSelectProject(q)
    \/ \E q \in Ids(projects) : handleDeleteProject(q)
    \/ onBackToProjects
SelectionSpec == InitLookup /\ [][SelectionNext]_vars

\* The explore session, on the same storage, with the selection of the
\* course it is opened for; and the same with a client that answers every
\* request.
ExploreSpec ==
    InitLookup /\ [][ExploreNext \/ (\E c \in Ids(courses) : handleSelectCourse(c))]_vars
ExploreAnswers(i) ==
    /\ i \in DOMAIN exploreCalls
    /\ \/ \E ts \in RelatedTopicLists(exploreCalls[i].course) : ExploreResolved(i, ts)
       \/ ExploreRejected(i)
\* The same with the generation of a course from a topic the session shows.
RecommendationNext ==
    \/ ExploreNext
    \/ \E c \in Ids(courses) : handleSelectCourse(c)
    \/ \E t \in RelatedTopicNames, l \in Levels : generateCourseFromRecommendation(t, l)
    \/ \E i \in DOMAIN calls : GenerateCourseResolved(i)
    \/ \E i \in DOMAIN calls, e \in Failures : GenerateCourseRejected(i, e)
RecommendationSpec == InitLookup /\ [][RecommendationNext]_vars
ExploreLiveSpec == ExploreSpec /\ \A i \in 1..MaxExploreCalls : WF_vars(ExploreAnswers(i))

\* ------------------------------------------------------------------ claims
Range(seq) == {seq[i] : i \in DOMAIN seq}
FolderCourseIds(fs) == UNION {Range(fs[i].courseIds) : i \in DOMAIN fs}
\* The step in which request i comes back: resolved or rejected.
Resolves(i, kind) ==
    /\ Awaiting(i, kind)
    /\ calls'[i].pc = "resolved"
Rejects(i, kind) ==
    /\ Awaiting(i, kind)
    /\ calls'[i].pc = "rejected"
\* The step in which a handler of this kind is called.
Starts(kind) ==
    /\ Len(calls') = Len(calls) + 1
    /\ calls'[Len(calls')].kind = kind
Contains(err, part) == \E k \in DOMAIN err.parts : err.parts[k] = part

\* C1: started on folders and progress records that name only courses of
\* the course list, after any sequence of handleDeleteCourse calls no
\* folder's courseIds and no key of progressData names a course that is not
\* in the course list.
C1_NoDanglingAfterDeletes ==
    /\ FolderCourseIds(folders) \subseteq Ids(courses)
    /\ Keys(progressData) \subseteq Ids(courses)
\* Course 1 has been deleted; it was in a folder (the persisted folder list
\* still shows it) and another course is still there.
C1_Witness ==
    /\ 1 \notin Ids(courses)
    /\ 1 \in FolderCourseIds(stFolders)
    /\ courses # <<>>
    /\ FolderCourseIds(folders) # {}

\* C2: when a handleGenerateCourse call with a null folder id resolves, the
\* generated course is the head of the course list, is in storage and is
\* the active course, error is null, and the call has invoked setViewCourse
\* once and setViewCanvas never.
C2_GenerateCourseSuccess ==
    [][\A i \in DOMAIN calls :
          Resolves(i, "course") /\ calls[i].folderId = NoId =>
              /\ courses' # <<>>
              /\ courses'[1].id = calls'[i].result
              /\ courses'[1] \in stCourses'
              /\ activeCourse' = courses'[1]
              /\ error' = NullError
              /\ calls'[i].nSuccess = 1
              /\ calls'[i].nFailure = 0]_vars
\* What the resolving step does establish: all of the above except the
\* null error, which the step leaves as it finds it.
GenerateCourseSuccessEffects ==
    [][\A i \in DOMAIN calls :
          Resolves(i, "course") /\ calls[i].folderId = NoId =>
              /\ courses' # <<>>
              /\ courses'[1].id = calls'[i].result
              /\ courses'[1] \in stCourses'
              /\ activeCourse' = courses'[1]
              /\ error' = error
              /\ calls'[i].nSuccess = 1
              /\ calls'[i].nFailure = 0]_vars

\* C3: when a handleGenerateCourse call is rejected, error becomes a
\* non-empty string that contains the failure's message (when the failure
\* is an Error, which carries one), the call has invoked setViewCanvas once
\* and setViewCourse never, and neither the step that issued the request
\* nor the step that takes the failure changes the active course, the
\* course list or anything in storage.
C3_GenerateCourseFailure ==
    [][/\ \A i \in DOMAIN calls :
             Rejects(i, "course") =>
                 /\ ~error'.isNull
                 /\ StrLen(error'.parts) > 0
                 /\ calls'[i].failure.isError =>
                        Contains(error', calls'[i].failure.message)
                 /\ calls'[i].nFailure = 1
                 /\ calls'[i].nSuccess = 0
                 /\ activeCourse' = activeCourse
                 /\ courses' = courses
                 /\ stVars' = stVars
       /\ Starts("course") =>
             /\ activeCourse' = activeCourse
             /\ courses' = courses
             /\ stVars' = stVars]_vars
\* A generation has failed with an Error while a course was active and
\* listed, and its message is in the error.
C3_Witness ==
    \E i \in DOMAIN calls :
        /\ calls[i].kind = "course"
        /\ calls[i].pc = "rejected"
        /\ calls[i].failure.isError
        /\ error = CourseError(calls[i].failure)
        /\ activeCourse # NoCourse
        /\ courses # <<>>

\* C4: every course id is in the courseIds of at most one folder, and at
\* most once in it.
Occurrences(fs, c) ==
    UNION {{<<i, k>> : k \in {k \in DOMAIN fs[i].courseIds : fs[i].courseIds[k] = c}} :
              i \in DOMAIN fs}
C4_AtMostOneFolder ==
    \A c \in KnownIds : Cardinality(Occurrences(folders, c)) <= 1

\* C5: toggling the same (course, lesson) twice in a row, at any two clock
\* readings, leaves the completed lessons of the course, in memory and in
\* storage, as they were; the first toggle inserts the lesson when it is
\* absent and removes it when it is present.  The same for the steps of a
\* project.
Completed(rec, id) == DOMAIN Get(rec, id)
ToggledOnce(before, after, key) ==
    after = IF key \in before THEN before \ {key} ELSE before \cup {key}
C5_DoubleToggle ==
    /\ \A c \in Ids(courses), l \in LessonIds, t1 \in now..MaxTime :
          \A t2 \in t1..MaxTime :
              LET once == LessonToggled(progressData, stProgress, c, l, t1)
                  twice == LessonToggled(once.mem, once.stored, c, l, t2)
              IN  /\ ToggledOnce(Completed(progressData, c), Completed(once.mem, c), l)
                  /\ ToggledOnce(Completed(stProgress, c), Completed(once.stored, c), l)
                  /\ Completed(twice.mem, c) = Completed(progressData, c)
                  /\ Completed(twice.stored, c) = Completed(stProgress, c)
    /\ \A p \in Ids(projects), st \in StepIds :
          LET once == StepToggled(projectProgressData, stProjectProgress, p, st)
              twice == StepToggled(once.mem, once.stored, p, st)
          IN  /\ ToggledOnce(Completed(projectProgressData, p), Completed(once.mem, p), st)
              /\ ToggledOnce(Completed(stProjectProgress, p), Completed(once.stored, p), st)
              /\ Completed(twice.mem, p) = Completed(projectProgressData, p)
              /\ Completed(twice.stored, p) = Completed(stProjectProgress, p)
\* A lesson of course 1 and a step of the project have been toggled on and
\* off again (the records exist and are empty) while another lesson of the
\* course of the second record stays completed.
C5_Witness ==
    /\ HasKey(progressData, 1) /\ HasKey(stProgress, 1)
    /\ Completed(progressData, 1) = {} /\ Completed(stProgress, 1) = {}
    /\ HasKey(projectProgressData, StoredProject.id)
    /\ Completed(projectProgressData, StoredProject.id) = {}
    /\ \E c \in Ids(courses) : Completed(progressData, c) # {}

\* C6: lastActiveCourseId is null exactly when no progress map holds an
\* entry; otherwise it is the id of the first course, in the iteration
\* order of progressData, whose map holds the largest timestamp of all maps.
Timestamps(m) == {m[k] : k \in DOMAIN m}
AllTimestamps(pd) == UNION {Timestamps(pd[i].map) : i \in DOMAIN pd}
Latest(pd) == CHOOSE t \in AllTimestamps(pd) : \A u \in AllTimestamps(pd) : u <= t
C6_LastActive ==
    /\ lastActiveCourseId = NoId <=> AllTimestamps(progressData) = {}
    /\ AllTimestamps(progressData) # {} =>
          \E i \in DOMAIN progressData :
              /\ lastActiveCourseId = progressData[i].id
              /\ Latest(progressData) \in Timestamps(progressData[i].map)
              /\ \A j \in 1..(i - 1) :
                    Latest(progressData) \notin Timestamps(progressData[j].map)
\* Two courses hold the latest timestamp, the one met first is not the one
\* with the smaller id, and an older entry exists as well.
C6_Witness ==
    /\ Len(progressData) >= 2
    /\ AllTimestamps(progressData) # {}
    /\ progressData[1].id > progressData[2].id
    /\ Latest(progressData) \in Timestamps(progressData[1].map)
    /\ Latest(progressData) \in Timestamps(progressData[2].map)
    /\ \E t \in AllTimestamps(progressData) : t < Latest(progressData)
    /\ lastActiveCourseId = progressData[1].id

\* C7: a send on an open session with history H sets the history to H and
\* the user turn, with isLoading true; when its request returns, the
\* history becomes H, the user turn and one model turn with the response,
\* with isLoading false; when it fails, the model turn is the fallback text.
Sends == Len(socraticCalls') = Len(socraticCalls) + 1
Returns(i, pc) ==
    /\ socraticCalls[i].pc = "awaiting"
    /\ socraticCalls'[i].pc = pc
C7_SendSocraticMessage ==
    [][/\ Sends =>
             LET sent == socraticCalls'[Len(socraticCalls')]
             IN  /\ socraticState.isOpen
                 /\ sent.history = socraticState.history
                 /\ socraticState'.history =
                        sent.history \o <<[role |-> "user", content |-> sent.message]>>
                 /\ socraticState'.isLoading
       /\ \A i \in DOMAIN socraticCalls :
             /\ Returns(i, "resolved") =>
                   /\ socraticState'.history =
                          socraticCalls[i].history
                              \o <<[role |-> "user", content |-> socraticCalls[i].message],
                                   [role |-> "model", content |-> socraticCalls'[i].response]>>
                   /\ ~socraticState'.isLoading
             /\ Returns(i, "rejected") =>
                   /\ socraticState'.history =
                          socraticCalls[i].history
                              \o <<[role |-> "user", content |-> socraticCalls[i].message],
                                   [role |-> "model", content |-> Fallback]>>
                   /\ ~socraticState'.isLoading]_vars
\* A message sent on a session that already had turns has been answered,
\* another has failed, and the history ends with the fallback turn.
C7_Witness ==
    \E i, j \in DOMAIN socraticCalls :
        /\ socraticCalls[i].pc = "resolved"
        /\ socraticCalls[j].pc = "rejected"
        /\ socraticCalls[j].history # <<>>
        /\ socraticState.isOpen
        /\ ~socraticState.isLoading
        /\ socraticState.history =
               Append(socraticCalls[j].newHistory, [role |-> "model", content |-> Fallback])

\* C8: while a session stays open, every send and every response leaves
\* the previous history as a prefix of the new one.
IsPrefix(s, t) == Len(s) <= Len(t) /\ \A k \in DOMAIN s : s[k] = t[k]
C8_HistoryOnlyGrows ==
    [][socraticState.isOpen /\ socraticCalls' # socraticCalls =>
           IsPrefix(socraticState.history, socraticState'.history)]_vars

\* C9: from a close until the next open the session is the discarded one:
\* not open, no text, no history, not loading.
C9_ClosedIsDiscarded == ~socraticState.isOpen => socraticState = Closed

\* C10: error is null right after every generation attempt starts; a set
\* error keeps its value in every step that starts no attempt; error is
\* null whenever a course or project generation resolves.
StartsAttempt == Starts("course") \/ Starts("project") \/ Starts("test")
C10_ErrorLifecycle ==
    [][/\ StartsAttempt => error' = NullError
       /\ ~error.isNull /\ ~StartsAttempt => error' = error
       /\ \A i \in DOMAIN calls :
             Resolves(i, "course") \/ Resolves(i, "project") => error' = NullError]_vars

\* C11: every call of handleGenerateCourse or handleCreateProject invokes
\* setViewGenerating exactly once, in the step that issues the request;
\* while the request is in flight neither the success nor the failure
\* callback has been invoked; the step that takes the result invokes the
\* success callback once with the new entity active, the step that takes
\* the failure invokes the failure callback once with error set, and never
\* both; and, the client answering, every call reaches one of the two.
IsGeneration(i) == i \in DOMAIN calls /\ calls[i].kind \in {"course", "project"}
C11_GenerationRunsToCompletion ==
    /\ [](\A i \in DOMAIN calls :
             IsGeneration(i) =>
                 /\ calls[i].nGenerating = 1
                 /\ calls[i].pc = "awaiting" =>
                        calls[i].nSuccess = 0 /\ calls[i].nFailure = 0
                 /\ calls[i].pc = "resolved" =>
                        calls[i].nSuccess = 1 /\ calls[i].nFailure = 0
                 /\ calls[i].pc = "rejected" =>
                        calls[i].nSuccess = 0 /\ calls[i].nFailure = 1)
    /\  [][/\ Starts("course") \/ Starts("project") =>
                 /\ calls'[Len(calls')].pc = "awaiting"
                 /\ calls'[Len(calls')].nGenerating = 1
           /\ \A i \in DOMAIN calls :
                 /\ Resolves(i, "course") => activeCourse'.id = calls'[i].result
                 /\ Resolves(i, "project") => activeProject'.id = calls'[i].result
                 /\ Rejects(i, "course") \/ Rejects(i, "project") => ~error'.isNull]_vars
    /\ \A i \in 1..MaxCalls :
          IsGeneration(i) ~> (IsGeneration(i) /\ calls[i].pc # "awaiting")
\* A course generation has succeeded and a project generation has failed,
\* each with its one callback, and the failure's error is still set.
C11_Witness ==
    \E i, j \in DOMAIN calls :
        /\ calls[i].kind = "course" /\ calls[i].pc = "resolved"
        /\ calls[j].kind = "project" /\ calls[j].pc = "rejected"
        /\ calls[i].nSuccess = 1 /\ calls[j].nFailure = 1
        /\ ~error.isNull

\* C12: the step in which the fun-fact request of a call fails changes
\* nothing in memory (error, the lists, the selections, funFacts) and
\* nothing in storage, invokes no view callback, and leaves the main
\* request of the call as it was: still in flight if it was, with the same
\* outcomes open to it, or with the outcome it already had.
FunFactsFail(i) ==
    /\ calls[i].funFactsPc = "awaiting"
    /\ calls'[i].funFactsPc = "rejected"
C12_FunFactFailureSwallowed ==
    [][\A i \in DOMAIN calls :
          FunFactsFail(i) =>
              /\ memVars' = memVars
              /\ stVars' = stVars
              /\ calls' = [calls EXCEPT ![i].funFactsPc = "rejected"]
              /\ (ENABLED Answers(i))' <=> ENABLED Answers(i)]_vars
\* The fun facts of a course generation that succeeded and those of a
\* project generation that failed have both failed.
C12_Witness ==
    \E i, j \in DOMAIN calls :
        /\ calls[i].kind = "course" /\ calls[i].pc = "resolved"
        /\ calls[j].kind = "project" /\ calls[j].pc = "rejected"
        /\ calls[i].funFactsPc = "rejected" /\ calls[j].funFactsPc = "rejected"

\* C13: handleDeleteProject(p) leaves p in neither the project list nor
\* projectProgressData nor the stored projects nor the stored project
\* progress, and leaves every other project and every other project's
\* progress record, in memory and in storage, as it was.
Others(rec, id) == SelectSeq(rec, LAMBDA x : x.id # id)
C13_DeleteProject ==
    [][\A p \in KnownIds :
          handleDeleteProject(p) =>
              /\ p \notin Ids(projects')
              /\ ~HasKey(projectProgressData', p)
              /\ p \notin {q.id : q \in stProjects'}
              /\ ~HasKey(stProjectProgress', p)
              /\ projects' = Others(projects, p)
              /\ Others(projects', p) = projects'
              /\ projectProgressData' = Others(projectProgressData, p)
              /\ stProjectProgress' = Others(stProjectProgress, p)
              /\ {q \in stProjects' : q.id # p} = {q \in stProjects : q.id # p}]_vars
\* A generated project has been deleted and is nowhere, while another
\* project is listed and stored and keeps a completed step in memory and
\* in storage.
C13_Witness ==
    \E i \in DOMAIN calls, q \in Ids(projects) :
        /\ calls[i].kind = "project" /\ calls[i].pc = "resolved"
        /\ calls[i].result \notin Ids(projects)
        /\ calls[i].result \notin {x.id : x \in stProjects}
        /\ q \in {x.id : x \in stProjects}
        /\ Completed(projectProgressData, q) # {}
        /\ Completed(stProjectProgress, q) # {}

\* C14: an operation given an id that no entity in memory has changes
\* nothing in memory and nothing in storage, and sets no error:
\* handleSelectCourse, handleSelectProject, handleSaveNote,
\* handleUpdateFolderName, handleDeleteFolder, and handleMoveCourseToFolder
\* with a non-null target that is no folder's id.
NoOp == memVars' = memVars /\ stVars' = stVars
C14_UnknownIdIsNoOp ==
    [][/\ \A c \in KnownIds \ Ids(courses) :
             /\ handleSelectCourse(c) => NoOp
             /\ \A l \in LessonIds, n \in Notes : handleSaveNote(c, l, n) => NoOp
       /\ \A q \in KnownIds \ Ids(projects) : handleSelectProject(q) => NoOp
       /\ \A f \in FolderIds \ Ids(folders) :
             /\ \A n \in NewNames : handleUpdateFolderName(f, n) => NoOp
             /\ handleDeleteFolder(f) => NoOp
             /\ \A c \in KnownIds : handleMoveCourseToFolder(c, f) => NoOp]_vars

\* C15: handleExploreTopics opens the session as open, loading, with the
\* course's title and no topics; when a request returns, topics is its
\* result and isLoading is false; when a request fails, the session is
\* open, isLoading is false, topics is empty and error is as it was; and,
\* the client answering, a loading session eventually is not loading.
ExploreStarts == Len(exploreCalls') = Len(exploreCalls) + 1
ExploreReturns(i, pc) ==
    /\ exploreCalls[i].pc = "awaiting"
    /\ exploreCalls'[i].pc = pc
C15_ExploreTopics ==
    /\  [][/\ ExploreStarts =>
                 exploreModalState' =
                     [isOpen |-> TRUE, isLoading |-> TRUE, topics |-> <<>>,
                      courseTitle |-> exploreCalls'[Len(exploreCalls')].course.title]
           /\ \A i \in DOMAIN exploreCalls :
                 /\ ExploreReturns(i, "resolved") =>
                       /\ exploreModalState'.topics = exploreCalls'[i].topics
                       /\ ~exploreModalState'.isLoading
                 /\ ExploreReturns(i, "rejected") =>
                       /\ exploreModalState'.isOpen
                       /\ ~exploreModalState'.isLoading
                       /\ exploreModalState'.topics = <<>>
                       /\ error' = error]_vars
    /\ exploreModalState.isLoading ~> ~exploreModalState.isLoading
\* What holds of a failing request in every interleaving: the step leaves
\* the session as it finds it, but for isLoading, which it sets to false.
ExploreFailureEffects ==
    /\  [][/\ ExploreStarts =>
                 exploreModalState' =
                     [isOpen |-> TRUE, isLoading |-> TRUE, topics |-> <<>>,
                      courseTitle |-> exploreCalls'[Len(exploreCalls')].course.title]
           /\ \A i \in DOMAIN exploreCalls :
                 /\ ExploreReturns(i, "resolved") =>
                       /\ exploreModalState'.topics = exploreCalls'[i].topics
                       /\ ~exploreModalState'.isLoading
                 /\ ExploreReturns(i, "rejected") =>
                       /\ exploreModalState' = [exploreModalState EXCEPT !.isLoading = FALSE]
                       /\ error' = error]_vars
    /\ exploreModalState.isLoading ~> ~exploreModalState.isLoading

\* C16: when the test request of a handleTestCourseConcepts call returns,
\* preloadedTest holds returned questions with the title and knowledge
\* level of the course the call was given, and navigateToAssessment has
\* been invoked once; when it fails, error is a non-empty string and
\* preloadedTest is as it was; a call that has not succeeded has never
\* invoked navigateToAssessment.
C16_NavigatesOnlyOnSuccess ==
    [][\A i \in DOMAIN calls :
          /\ Resolves(i, "test") =>
                /\ preloadedTest'.questions \in QuestionLists
                /\ preloadedTest'.topic = calls[i].course.title
                /\ preloadedTest'.difficulty = calls[i].course.knowledgeLevel
                /\ calls'[i].nSuccess = 1
          /\ Rejects(i, "test") =>
                /\ ~error'.isNull
                /\ StrLen(error'.parts) > 0
                /\ preloadedTest' = preloadedTest
                /\ calls'[i].nSuccess = 0
          /\ Starts("test") => calls'[Len(calls')].nSuccess = 0]_vars
\* The test of one course was generated and then the test of another
\* course failed: preloadedTest still holds the first, and error is set.
C16_Witness ==
    \E i, j \in DOMAIN calls :
        /\ calls[i].kind = "test" /\ calls[i].pc = "resolved"
        /\ calls[j].kind = "test" /\ calls[j].pc = "rejected"
        /\ calls[i].course.id # calls[j].course.id
        /\ i < j
        /\ preloadedTest.topic = calls[i].course.title
        /\ ~error.isNull

\* C17: the ids of the folders in memory are pairwise distinct, and so are
\* the ids of the persisted folders.
DistinctIds(fs) == \A i, j \in DOMAIN fs : i # j => fs[i].id # fs[j].id
C17_FolderIdsDistinct == DistinctIds(folders) /\ DistinctIds(stFolders)

\* C18: when a handleGenerateCourse call with a folder id F resolves, the
\* folder list in memory becomes the list as it was just before the step
\* with the new course id appended to the courseIds of F, and the
\* persisted list is the same list.
C18_GenerateIntoFolder ==
    [][\A i \in DOMAIN calls :
          Resolves(i, "course") /\ calls[i].folderId # NoId =>
              /\ folders' = AppendToFolder(folders, calls[i].folderId, calls'[i].result)
              /\ stFolders' = folders']_vars

\* C19: the persisted folder list equals the folder list in memory (no
\* operation is ever half done in a state: each handler is one step).
C19_PersistedFoldersEqualMemory == stFolders = folders

\* C20: a handleGenerateLessonFlashcards(L) call with an active course that
\* has lesson L leaves the marker at L, whatever it was before, and issues
\* its request whatever other requests are in flight; the step in which a
\* request returns or fails leaves the marker null, and so does a call for
\* a lesson the active course does not have; with no active course no call
\* can change anything.
FlashcardCallStarts == Len(flashcardCalls') = Len(flashcardCalls) + 1
FlashcardReturns(i) ==
    /\ flashcardCalls[i].pc = "awaiting"
    /\ flashcardCalls'[i].pc \in {"resolved", "rejected"}
C20_MarkerLastWriteWins ==
    /\  [][/\ \A l \in LessonIds \cup UnknownLessonIds :
                 handleGenerateLessonFlashcards(l) /\ activeCourse # NoCourse =>
                     /\ FlashcardCallStarts
                     /\ generatingLessonFlashcardId' =
                            IF HasLesson(activeCourse, l) THEN l ELSE NoLesson
           /\ \A i \in DOMAIN flashcardCalls :
                 FlashcardReturns(i) => generatingLessonFlashcardId' = NoLesson]_vars
    /\  [](activeCourse = NoCourse =>
               \A l \in LessonIds \cup UnknownLessonIds :
                   ~ENABLED (handleGenerateLessonFlashcards(l) /\ vars' # vars))
\* The marker was overwritten by a second call while the first request was
\* in flight, and the first to finish has cleared it although the other
\* is still in flight.
C20_Witness ==
    \E i, j \in DOMAIN flashcardCalls :
        /\ flashcardCalls[i].pc \in {"resolved", "rejected"}
        /\ flashcardCalls[j].pc = "awaiting"
        /\ flashcardCalls[i].lessonId # flashcardCalls[j].lessonId
        /\ generatingLessonFlashcardId = NoLesson

\* C21: while a flashcard request is in flight the marker is not null and
\* names the lesson of a request in flight; the marker is null only when
\* no flashcard request is in flight.
FlashcardsInFlight == {i \in DOMAIN flashcardCalls : flashcardCalls[i].pc = "awaiting"}
C21_MarkerTracksInFlight ==
    /\ FlashcardsInFlight # {} =>
          /\ generatingLessonFlashcardId # NoLesson
          /\ \E i \in FlashcardsInFlight :
                flashcardCalls[i].lessonId = generatingLessonFlashcardId
    /\ generatingLessonFlashcardId = NoLesson => FlashcardsInFlight = {}

\* C22: the step in which the flashcard request for lesson L of a course
\* returns changes, of that course, only the flashcards of L: the course
\* in the list, the active course when it is that course, and the stored
\* course are afterwards what they were just before the step but for the
\* flashcards of L.
FlashcardsReturn(i) ==
    /\ flashcardCalls[i].pc = "awaiting"
    /\ flashcardCalls'[i].pc = "resolved"
FlashcardsOf(course, lessonId) ==
    LET k == CHOOSE k \in DOMAIN course.lessons : course.lessons[k].id = lessonId
    IN  course.lessons[k].flashcards
OnlyFlashcardsChanged(before, after, lessonId) ==
    /\ after.id = before.id
    /\ after = WithFlashcards(before, lessonId, FlashcardsOf(after, lessonId))
C22_OnlyFlashcardsChange ==
    [][\A i \in DOMAIN flashcardCalls :
          FlashcardsReturn(i) =>
              LET c == flashcardCalls[i].course.id
                  l == flashcardCalls[i].lessonId
              IN  /\ \A k \in DOMAIN courses :
                        courses[k].id = c =>
                            /\ k \in DOMAIN courses'
                            /\ OnlyFlashcardsChanged(courses[k], courses'[k], l)
                  /\ activeCourse.id = c => OnlyFlashcardsChanged(activeCourse, activeCourse', l)
                  /\ \A before \in stCourses :
                        before.id = c =>
                            \E after \in stCourses' :
                                OnlyFlashcardsChanged(before, after, l)]_vars

\* C23: an active course is one of the courses of the list, the same in
\* every field, and an active project is one of the projects of the list.
C23_ActiveIsListed ==
    /\ activeCourse # NoCourse => \E k \in DOMAIN courses : courses[k] = activeCourse
    /\ activeProject # NoProject => \E k \in DOMAIN projects : projects[k] = activeProject

\* C24: whenever the explore session holds topics, it is open and every
\* topic it holds was returned for the course whose title it shows.
C24_TopicsBelongToSession ==
    exploreModalState.topics # <<>> =>
        /\ exploreModalState.isOpen
        /\ \A k \in DOMAIN exploreModalState.topics :
              exploreModalState.topics[k].relatedTo = exploreModalState.courseTitle
====
